---- MODULE Spec2Model ----
(***************************************************************************)
(* Model of spendmend_adk/tools/fs_tools.py: the sandboxed file and patch  *)
(* tools (read_local_file, write_local_file, apply_patch_locally,          *)
(* list_directory, get_file_info, create_directory) over an abstract file  *)
(* system.                                                                 *)
(*                                                                         *)
(* A path string is the sequence of its "/"-separated segments, an         *)
(* absolute one starting with the empty segment ("/etc/p" is               *)
(* <<"", "etc", "p">>), the empty string is <<>>.  A canonical location is *)
(* the sequence of names from the file system root.  The file system maps  *)
(* the canonical locations that exist to their node: a directory, a file   *)
(* with its content, or a symbolic link with its (canonical) target.       *)
(***************************************************************************)
EXTENDS Naturals, Sequences, FiniteSets, TLC

VARIABLES
    fs,          \* canonical location -> node, for the locations that exist
    allowedEnv,  \* the ALLOWED_REPO_ROOTS variable: a sequence of root paths
    clock,       \* the wall clock, in seconds
    tmpFiles,    \* the temporary patch files present in the temp directory
    made,        \* backup location -> content it was created with (history)
    resp,        \* the response of the last call
    last,        \* what the last call was given and what it did (history)
    steps,       \* number of calls made so far
    writers,     \* of each concurrent caller of write_local_file: where it is
                 \* in the call, what it was given, and its response
    lastWrite    \* the caller whose write step ran last (history; 0: none)

vars == <<fs, allowedEnv, clock, tmpFiles, made, resp, last, steps, writers, lastWrite>>

\* ------------------------------------------------------------------ bounds

\* Number of tool calls in one run of the sandbox specification.
MaxOps == 2
\* Number of apply_patch_locally calls in one run of the patch specification.
MaxPatchOps == 1
\* Number of tool calls in one run of the backup specification.
MaxBackupOps == 3
\* Last second of the wall clock.
MaxClock == 1

\* --------------------------------------------------------------- constants

MAX_READ_FILE_SIZE == 1 * 1024 * 1024
MAX_WRITE_FILE_SIZE == 500 * 1024

None == "None"

\* ------------------------------------------------------------ file system

Dir == [kind |-> "dir", content |-> None, target |-> <<>>]
File(c) == [kind |-> "file", content |-> c, target |-> <<>>]
Link(t) == [kind |-> "link", content |-> None, target |-> t]

\* settings.workspace_root, resolved.
get_workspace_root == <<"ws">>

WS == get_workspace_root
Repo == <<"ws", "repo">>
Proj == <<"ws", "proj">>
Other == <<"ws", "other">>
Etc == <<"etc">>

Min(a, b) == IF a <= b THEN a ELSE b
Front(s) == SubSeq(s, 1, Len(s) - 1)
Last(s) == s[Len(s)]

\* Path.relative_to(root) succeeds: p is root or below it.
IsUnder(p, root) == Len(root) <= Len(p) /\ SubSeq(p, 1, Len(root)) = root

Exists(f, p) == p \in DOMAIN f
IsFile(f, p) == p \in DOMAIN f /\ f[p].kind = "file"
IsDir(f, p) == p \in DOMAIN f /\ f[p].kind = "dir"

\* f with location p holding node n.
Put(f, p, n) == [q \in DOMAIN f \cup {p} |-> IF q = p THEN n ELSE f[q]]
\* f without location p.
Remove(f, p) == [q \in DOMAIN f \ {p} |-> f[q]]

\* The proper ancestors of p and p itself, shortest first.
Prefixes(p) == {SubSeq(p, 1, n) : n \in 1..Len(p)}

\* Path.mkdir(parents=True, exist_ok=True): p and its missing ancestors.
MkdirParents(f, p) ==
    [q \in DOMAIN f \cup Prefixes(p) |-> IF q \in DOMAIN f THEN f[q] ELSE Dir]

\* Path.resolve(): walk the segments from cur; "" and "." are skipped, ".."
\* drops the last name, a symbolic link is replaced by its target, and a
\* missing component is kept as it is (strict=False).
RECURSIVE Walk(_, _, _)
Walk(f, cur, segs) ==
    IF segs = <<>> THEN cur
    ELSE LET s == Head(segs)
             rest == Tail(segs)
             nxt == Append(cur, s)
         IN  IF s = "" \/ s = "." THEN Walk(f, cur, rest)
             ELSE IF s = ".." THEN Walk(f, IF cur = <<>> THEN cur ELSE Front(cur), rest)
             ELSE IF nxt \in DOMAIN f /\ f[nxt].kind = "link"
                  THEN Walk(f, f[nxt].target, rest)
                  ELSE Walk(f, nxt, rest)

\* Path(path).is_absolute()
IsAbsolute(path) == Len(path) >= 1 /\ path[1] = ""

\* The canonical form of a caller-supplied path: relative paths are joined
\* to the workspace root, then symbolic links and ".." are resolved.
Resolve(f, path) ==
    IF IsAbsolute(path) THEN Walk(f, <<>>, path) ELSE Walk(f, WS, path)

\* os.environ ALLOWED_REPO_ROOTS split on ":"; the workspace root when unset.
get_allowed_repo_roots(f, env) ==
    IF env # <<>> THEN {Walk(f, <<>>, env[i]) : i \in 1..Len(env)}
    ELSE {get_workspace_root}

\* An error message: its wording, and the paths and the roots it spells out.
Err(kind, paths, roots) ==
    [kind |-> kind, paths |-> paths, roots |-> roots, numbers |-> {}]
\* An error message that spells out byte counts.
ErrNumbers(kind, numbers) == [Err(kind, {}, {}) EXCEPT !.numbers = numbers]
NoError == Err("", {}, {})

\* (is_allowed, error): the error names the path and the allowed roots.
check_in_allowed_roots(f, env, p) ==
    IF \E root \in get_allowed_repo_roots(f, env) : IsUnder(p, root)
    THEN [allowed |-> TRUE, error |-> NoError]
    ELSE [allowed |-> FALSE,
          error |-> Err("is not within allowed repo roots", {p},
                        get_allowed_repo_roots(f, env))]

\* A variant that normalises the path by its text alone ("" "." ".." are
\* folded, symbolic links are not followed) before the containment check.
validate_path_lexically(f, path, mkdirFails) ==
    LET missing == ~Exists(f, get_workspace_root)
        f1 == IF missing /\ ~mkdirFails THEN MkdirParents(f, get_workspace_root) ELSE f
        textual == IF IsAbsolute(path) THEN Walk(<<>>, <<>>, path)
                   ELSE Walk(<<>>, get_workspace_root, path)
    IN  IF missing /\ mkdirFails
        THEN [valid |-> FALSE, resolved |-> <<>>, fs |-> f,
              error |-> Err("Cannot create workspace root", {}, {get_workspace_root})]
        ELSE IF ~IsUnder(textual, get_workspace_root)
        THEN [valid |-> FALSE, resolved |-> <<>>, fs |-> f1,
              error |-> Err("is outside workspace sandbox", {path}, {get_workspace_root})]
        ELSE [valid |-> TRUE, resolved |-> Resolve(f1, path), fs |-> f1, error |-> NoError]

\* A variant that resolves the path and leaves out the containment check.
validate_path_unchecked(f, path, mkdirFails) ==
    LET missing == ~Exists(f, get_workspace_root)
        f1 == IF missing /\ ~mkdirFails THEN MkdirParents(f, get_workspace_root) ELSE f
    IN  IF missing /\ mkdirFails
        THEN [valid |-> FALSE, resolved |-> <<>>, fs |-> f,
              error |-> Err("Cannot create workspace root", {}, {get_workspace_root})]
        ELSE [valid |-> TRUE, resolved |-> Resolve(f1, path), fs |-> f1, error |-> NoError]

\* (is_valid, error, resolved) and the file system after the call: a missing
\* workspace root is created first, and mkdirFails is the OSError of that.
\* An absent value (Python's None) is the empty sequence.
validate_path_in_sandbox(f, path, mkdirFails) ==
    LET missing == ~Exists(f, get_workspace_root)
        f1 == IF missing /\ ~mkdirFails THEN MkdirParents(f, get_workspace_root) ELSE f
        resolved == Resolve(f1, path)
    IN  IF missing /\ mkdirFails
        THEN [valid |-> FALSE, resolved |-> <<>>, fs |-> f,
              error |-> Err("Cannot create workspace root", {}, {get_workspace_root})]
        ELSE IF ~IsUnder(resolved, get_workspace_root)
        THEN [valid |-> FALSE, resolved |-> <<>>, fs |-> f1,
              error |-> Err("is outside workspace sandbox", {path}, {get_workspace_root})]
        ELSE [valid |-> TRUE, resolved |-> resolved, fs |-> f1, error |-> NoError]

\* ----------------------------------------------------------------- backups

\* path.with_suffix(path.suffix + ".bak")
BakName(p) == Append(Front(p), Last(p) \o ".bak")
\* datetime.now().strftime("%Y%m%d_%H%M%S"): one stamp per second.
Stamp(now) == ToString(now)
\* path.with_suffix(f"{path.suffix}.{timestamp}.bak")
TsBakName(p, now) == Append(Front(p), Last(p) \o "." \o Stamp(now) \o ".bak")

\* A variant that takes an existing ".bak" for the backup and copies nothing.
create_backup_once(f, p, now, copyFails) ==
    IF ~Exists(f, p) THEN [fs |-> f, backup |-> {}]
    ELSE LET plain == BakName(p)
         IN  IF Exists(f, plain) THEN [fs |-> f, backup |-> {plain}]
             ELSE IF copyFails \/ ~IsFile(f, p) THEN [fs |-> f, backup |-> {}]
             ELSE [fs |-> Put(f, plain, f[p]), backup |-> {plain}]

\* A variant that keeps the latest backup only: the timestamped copy
\* replaces the ".bak" it found.
create_backup_latest(f, p, now, copyFails) ==
    IF ~Exists(f, p) THEN [fs |-> f, backup |-> {}]
    ELSE LET plain == BakName(p)
             backup_path == IF Exists(f, plain) THEN TsBakName(p, now) ELSE plain
         IN  IF copyFails \/ ~IsFile(f, p) \/ IsDir(f, backup_path)
             THEN [fs |-> f, backup |-> {}]
             ELSE IF backup_path = plain
             THEN [fs |-> Put(f, plain, f[p]), backup |-> {plain}]
             ELSE [fs |-> Put(Remove(f, plain), backup_path, f[p]),
                   backup |-> {backup_path}]

\* A variant that returns the backup's location also when the copy failed.
create_backup_unreported(f, p, now, copyFails) ==
    IF ~Exists(f, p) THEN [fs |-> f, backup |-> {}]
    ELSE LET plain == BakName(p)
             backup_path == IF Exists(f, plain) THEN TsBakName(p, now) ELSE plain
         IN  IF copyFails \/ ~IsFile(f, p) \/ IsDir(f, backup_path)
             THEN [fs |-> f, backup |-> {backup_path}]
             ELSE [fs |-> Put(f, backup_path, f[p]), backup |-> {backup_path}]

\* _create_backup: the backup's location (None when there is none) and the
\* file system after the copy.  copyFails is an exception of shutil.copy2.
\* The backup is a set: empty for Python's None.
create_backup(f, p, now, copyFails) ==
    IF ~Exists(f, p) THEN [fs |-> f, backup |-> {}]
    ELSE LET plain == BakName(p)
             backup_path == IF Exists(f, plain) THEN TsBakName(p, now) ELSE plain
         IN  IF copyFails \/ ~IsFile(f, p) \/ IsDir(f, backup_path)
             THEN [fs |-> f, backup |-> {}]
             ELSE [fs |-> Put(f, backup_path, f[p]), backup |-> {backup_path}]

\* ----------------------------------------------------------------- content

Contents == {"A", "B"}
\* A text longer than the write cap.
Big == "BIG"

\* A content is known by its name.  What the code can see of it: its first
\* bytes (the rest is plain text), its length in bytes and in characters, and
\* the number of its lines.  Bytes are named: "x89" and "xFF" are no UTF-8,
\* "NUL" is the null byte, "CR" and "LF" the line ends.
Plain(c) == [head |-> <<c>>, size |-> 1, chars |-> 1, lines |-> 1]

\* A text with a Windows line end, and what universal newlines make of it.
CrLfText == "a CR LF b"
LfText == "a LF b"
\* Texts that begin like an executable and like a PDF.
MzText == "MZ notes"
PdfText == "%PDF notes"
\* A text with a null byte.
NulText == "a NUL b"
\* Files that begin with the PNG signature: an image, and the signature
\* followed by plain text.
PngImage == "PNG image"
PngThenText == "PNG then text"
PngSignature == <<"x89", "P", "N", "G", "CR", "LF", "x1A", "LF">>
\* Texts of exactly the read cap, of one byte more, and an image of that size.
ExactText == "EXACT"
HugeText == "HUGE"
HugeImage == "HUGE PNG"
\* A text of two-byte characters: within the write cap by characters, over it
\* by bytes.
WideText == "WIDE"
\* A text with a lone surrogate, which UTF-8 cannot encode.
SurrogateText == "SURROGATE"

Content(c) ==
    CASE c = CrLfText -> [head |-> <<"a", "CR", "LF", "b">>, size |-> 4, chars |-> 4, lines |-> 2]
      [] c = LfText -> [head |-> <<"a", "LF", "b">>, size |-> 3, chars |-> 3, lines |-> 2]
      [] c = MzText -> [head |-> <<"M", "Z", " ", "n", "o", "t", "e", "s">>, size |-> 8,
                        chars |-> 8, lines |-> 1]
      [] c = PdfText -> [head |-> <<"%", "P", "D", "F", " ", "n", "o", "t", "e", "s">>,
                         size |-> 10, chars |-> 10, lines |-> 1]
      [] c = NulText -> [head |-> <<"a", "NUL", "b">>, size |-> 3, chars |-> 3, lines |-> 1]
      [] c = PngImage -> [head |-> PngSignature \o <<"NUL", "xFF">>, size |-> 10,
                          chars |-> 10, lines |-> 1]
      [] c = PngThenText -> [head |-> PngSignature \o <<"t", "x", "t">>, size |-> 11,
                             chars |-> 11, lines |-> 1]
      [] c = ExactText -> [head |-> <<"e">>, size |-> MAX_READ_FILE_SIZE,
                           chars |-> MAX_READ_FILE_SIZE, lines |-> 1]
      [] c = HugeText -> [head |-> <<"h">>, size |-> MAX_READ_FILE_SIZE + 1,
                          chars |-> MAX_READ_FILE_SIZE + 1, lines |-> 1]
      [] c = HugeImage -> [head |-> PngSignature, size |-> MAX_READ_FILE_SIZE + 1,
                           chars |-> MAX_READ_FILE_SIZE + 1, lines |-> 1]
      [] c = Big -> [head |-> <<"b">>, size |-> MAX_WRITE_FILE_SIZE + 1,
                     chars |-> MAX_WRITE_FILE_SIZE + 1, lines |-> 1]
      [] c = WideText -> [head |-> <<"xC3", "xA9">>, size |-> MAX_WRITE_FILE_SIZE + 2,
                          chars |-> (MAX_WRITE_FILE_SIZE + 2) \div 2, lines |-> 1]
      [] c = "" -> [head |-> <<>>, size |-> 0, chars |-> 0, lines |-> 1]
      [] OTHER -> Plain(c)

\* The length in bytes of the content's UTF-8 form.
ByteLen(c) == Content(c).size

\* A variant that counts the characters: len(content).
CharCount(c) == Content(c).chars

\* len(content.encode(encoding))
EncodedSize(c) == Content(c).size

\* content.encode(encoding) raises UnicodeEncodeError.
EncodeFails(c) == c = SurrogateText


\* ------------------------------------------------------------- call record

\* The faults of one call: mkdir (the workspace root cannot be created), tmp
\* ("none"; "create": NamedTemporaryFile raises OSError; "write": the file is
\* created and writing it raises OSError; "encode": the file is created and
\* writing it raises UnicodeEncodeError), stat (exists() of a file to back up
\* raises PermissionError, stat() of a file to read raises OSError), copy
\* (shutil.copy2 raises), write (write_text raises OSError), backend ("none",
\* "missing", "timeout": see RunBackend), read ("none"; "open": the file
\* cannot be opened for the binary detection; "oserror": read_text raises
\* OSError; "lookup": the encoding asked for is unknown, LookupError),
\* preview ("none", "empty", "error", "timeout": see generate_diff_preview).
\* The history of one call: what it was given (op, path, the flags) and what
\* it did: the locations it accessed once the path was resolved (io), whether
\* it created the workspace root, the backups its backup step wrote, how many
\* times it started a backend process, the files the backend changed with
\* their content before (changed), the temporary files it created, the
\* content of the written file before the write (before), and for a patch
\* the paths extracted from the body, the resolved target directory and the
\* last stage the call reached; and the faults the call met.  Further: the
\* content given to a write, the limits given to a read, the files whose
\* bytes the call read (opened), and of a patch whether it took the target
\* for a git repository (is_git, empty before the backend is chosen) and the
\* mode the backend ran in ("none", "check", "apply") and how it ended
\* (outcome: "none", "exit 0", "exit 1", "timeout", "missing").
NoFault ==
    [mkdir |-> FALSE, tmp |-> "none", stat |-> FALSE, copy |-> FALSE, write |-> FALSE,
     backend |-> "none", read |-> "none", preview |-> "none"]

Call(op, path) ==
    [op |-> op, path |-> path, io |-> {}, wsCreated |-> FALSE, backups |-> {},
     backend |-> 0, changed |-> {}, tmp |-> {}, create_backup |-> FALSE,
     dry_run |-> FALSE, strip |-> 0, patch |-> <<>>, before |-> {}, extracted |-> <<>>,
     target |-> <<>>, stage |-> "arguments", fault |-> NoFault,
     content |-> {}, max_size |-> {}, max_lines |-> {}, opened |-> {}, is_git |-> {},
     mode |-> "none", outcome |-> "none",
     recursive |-> FALSE, pattern |-> "", max_depth |-> {}]

\* A response: ok, whether the call raised instead of returning, the error,
\* and backup_path (a set: empty when the key is absent or null).
\* Of a patch response: whether error_message is a string (not null or
\* absent), files_modified, whether conflicts is a non-empty list and
\* whether diff_preview is a string, and the two hunk counts.  Of a read or
\* write response: content and size (sets: empty when the key is absent).
\* Of a listing: the entries in their order, count and truncated.
Response(ok, error) ==
    [ok |-> ok, raised |-> FALSE, error |-> error, backup_path |-> {},
     error_message |-> FALSE, files_modified |-> {}, conflicts |-> FALSE,
     diff_preview |-> FALSE, content |-> {}, size |-> {},
     hunks_applied |-> 0, hunks_failed |-> 0,
     entries |-> <<>>, count |-> {}, truncated |-> FALSE]
Raised(kind) == [Response(FALSE, Err(kind, {}, {})) EXCEPT !.raised = TRUE]

\* The history of backups: each backup location with the content its first
\* copy held.
Record(m, f, new) ==
    [b \in DOMAIN m \cup (new \cap DOMAIN f) |->
        IF b \in DOMAIN m THEN m[b] ELSE f[b].content]

\* What every call leaves alone or advances.
Finish(f, r, l) ==
    /\ steps' = steps + 1
    /\ fs' = f
    /\ resp' = r
    /\ last' = l
    /\ made' = Record(made, f, l.backups)
    /\ UNCHANGED <<allowedEnv, clock, writers, lastWrite>>

\* ---------------------------------------------------------- read_local_file

\* BINARY_MAGIC_BYTES, in the order of the list.
BINARY_MAGIC_BYTES ==
    << <<"x7F", "E", "L", "F">>, <<"M", "Z">>, <<"x89", "P", "N", "G">>, <<"xFF", "xD8">>,
       <<"G", "I", "F", "8">>, <<"P", "K", "x03", "x04">>, <<"x1F", "x8B">>,
       <<"B", "Z", "h">>, <<"NUL", "NUL", "x01", "NUL">>, <<"%", "P", "D", "F">> >>

\* header.startswith(magic)
StartsWith(bytes, prefix) ==
    Len(prefix) <= Len(bytes) /\ SubSeq(bytes, 1, Len(prefix)) = prefix

\* chunk.decode("utf-8") raises UnicodeDecodeError: a byte that is no UTF-8
\* where it stands.
DecodeFails(bytes) ==
    \E i \in 1..Len(bytes) : bytes[i] \in {"x89", "xFF", "xD8", "x8B"}

\* A variant that goes by the file's name: binary is what ends in ".png".
is_binary_by_name(f, p, openFails) == openFails \/ Last(p) = "shot.png"

\* _is_binary_file: the magic bytes of the first eight bytes, a null byte or
\* bytes that are no UTF-8 in the first chunk; a file that cannot be opened
\* counts as binary.
is_binary_file(f, p, openFails) ==
    LET chunk == Content(f[p].content).head
        header == SubSeq(chunk, 1, Min(8, Len(chunk)))
    IN  \/ openFails
        \/ \E m \in 1..Len(BINARY_MAGIC_BYTES) : StartsWith(header, BINARY_MAGIC_BYTES[m])
        \/ (\E i \in 1..Len(chunk) : chunk[i] = "NUL")
        \/ DecodeFails(chunk)

\* The text of a file, as read_text returns it: in text mode "\r\n" and "\r"
\* are read as "\n".
ReadText(f, p) == IF f[p].content = CrLfText THEN LfText ELSE f[p].content

\* The first max_lines lines with a note, when the text has more lines.
Truncate(text, max_lines) ==
    IF max_lines > 0 /\ Content(text).lines > max_lines
    THEN text \o " (truncated)" ELSE text

DEFAULT_MAX_LINES == 1000

\* A variant that also refuses a file of exactly max_size bytes.
ReachesMaxSize(file_size, max_size) == file_size >= max_size

\* file_size > max_size
ExceedsMaxSize(file_size, max_size) == file_size > max_size

read_local_file(path, max_size, max_lines, ft) ==
    LET v == validate_path_in_sandbox(fs, path, ft.mkdir)
        a == check_in_allowed_roots(v.fs, allowedEnv, v.resolved)
        c0 == [Call("read", path) EXCEPT !.max_size = {max_size},
                                         !.max_lines = {max_lines}, !.fault = ft]
        l0 == [c0 EXCEPT !.wsCreated = v.fs # fs]
        l1 == [l0 EXCEPT !.io = {v.resolved}, !.target = v.resolved]
        l2 == [l1 EXCEPT !.opened = {v.resolved}]
        file_size == Content(v.fs[v.resolved].content).size
        sized(r) == [r EXCEPT !.size = {file_size}]
    IN  /\ UNCHANGED tmpFiles
        /\ IF path = <<>> THEN Finish(fs, Response(FALSE, Err("path is required", {}, {})), c0)
           ELSE IF ~v.valid THEN Finish(v.fs, Response(FALSE, v.error), l0)
           ELSE IF ~a.allowed THEN Finish(v.fs, Response(FALSE, a.error), l0)
           ELSE IF ~Exists(v.fs, v.resolved)
                THEN Finish(v.fs, Response(FALSE, Err("File not found", {v.resolved}, {})), l1)
           ELSE IF ~IsFile(v.fs, v.resolved)
                THEN Finish(v.fs, Response(FALSE, Err("Path is not a file", {v.resolved}, {})), l1)
           ELSE IF ft.stat
                THEN Finish(v.fs, Response(FALSE, Err("Cannot stat file", {v.resolved}, {})), l1)
           ELSE IF ExceedsMaxSize(file_size, max_size)
                THEN Finish(v.fs, sized(Response(FALSE, ErrNumbers("File size exceeds maximum",
                                                                   {file_size, max_size}))), l1)
           ELSE IF is_binary_file(v.fs, v.resolved, ft.read = "open")
                THEN Finish(v.fs, sized(Response(FALSE, Err("Binary file detected", {}, {}))), l2)
           ELSE IF ft.read = "lookup" THEN Finish(v.fs, Raised("LookupError"), l2)
           ELSE IF ft.read = "oserror"
                THEN Finish(v.fs, Response(FALSE, Err("Read error", {v.resolved}, {})), l2)
           ELSE Finish(v.fs,
                       sized([Response(TRUE, NoError) EXCEPT
                                 !.content = {Truncate(ReadText(v.fs, v.resolved), max_lines)}]),
                       l2)

\* --------------------------------------------------------- write_local_file

\* Path.mkdir raises OSError: an ancestor that exists is no directory, or,
\* without parents, the parent is missing.
MkdirFails(f, p, parents) ==
    \/ \E q \in Prefixes(Front(p)) : Exists(f, q) /\ ~IsDir(f, q)
    \/ ~parents /\ ~Exists(f, Front(p))

\* resolved_path.write_text(content): an OSError when the parent is no
\* directory, the path is a directory, or the disk write fails (writeFails).
WriteTextFails(f, p, writeFails) == writeFails \/ ~IsDir(f, Front(p)) \/ IsDir(f, p)

write_local_file(path, content, create_dirs, backup, ft) ==
    LET v == validate_path_in_sandbox(fs, path, ft.mkdir)
        a == check_in_allowed_roots(v.fs, allowedEnv, v.resolved)
        c0 == [Call("write", path) EXCEPT !.create_backup = backup, !.fault = ft,
                                          !.content = {content}]
        l0 == [c0 EXCEPT !.wsCreated = v.fs # fs]
        parent_dir == Front(v.resolved)
        f1 == IF ~Exists(v.fs, parent_dir) THEN MkdirParents(v.fs, parent_dir) ELSE v.fs
        b == IF backup /\ Exists(f1, v.resolved)
             THEN create_backup(f1, v.resolved, clock, ft.copy)
             ELSE [fs |-> f1, backup |-> {}]
        l1 == [l0 EXCEPT !.io = {v.resolved, parent_dir} \cup b.backup,
                         !.backups = b.backup,
                         !.target = v.resolved,
                         !.before = IF IsFile(v.fs, v.resolved)
                                    THEN {v.fs[v.resolved].content} ELSE {}]
    IN  /\ UNCHANGED tmpFiles
        /\ IF path = <<>> THEN Finish(fs, Response(FALSE, Err("path is required", {}, {})), c0)
           ELSE IF EncodeFails(content) THEN Finish(fs, Raised("UnicodeEncodeError"), c0)
           ELSE IF EncodedSize(content) > MAX_WRITE_FILE_SIZE
                THEN Finish(fs, Response(FALSE, Err("Content size exceeds maximum", {path}, {})), c0)
           ELSE IF ~v.valid THEN Finish(v.fs, Response(FALSE, v.error), l0)
           ELSE IF ~a.allowed THEN Finish(v.fs, Response(FALSE, a.error), l0)
           ELSE IF ~Exists(v.fs, parent_dir) /\ ~create_dirs
                THEN Finish(v.fs, Response(FALSE, Err("Parent directory does not exist", {parent_dir}, {})),
                            [l0 EXCEPT !.io = {parent_dir}])
           ELSE IF ~Exists(v.fs, parent_dir) /\ MkdirFails(v.fs, v.resolved, TRUE)
                THEN Finish(v.fs, Response(FALSE, Err("Cannot create parent directory", {v.resolved}, {})),
                            [l0 EXCEPT !.io = {parent_dir}])
           ELSE IF WriteTextFails(b.fs, v.resolved, ft.write)
                THEN Finish(b.fs, Response(FALSE, Err("Write error", {v.resolved}, {})), l1)
           ELSE Finish(Put(b.fs, v.resolved, File(content)),
                       [Response(TRUE, NoError) EXCEPT !.backup_path = b.backup,
                                                       !.size = {Content(content).size}],
                       l1)

\* ------------------------------------------------------------ get_file_info

get_file_info(path, mkdirFails) ==
    LET v == validate_path_in_sandbox(fs, path, mkdirFails)
        l0 == [Call("info", path) EXCEPT !.wsCreated = v.fs # fs]
        l1 == [l0 EXCEPT !.io = {v.resolved}]
    IN  /\ UNCHANGED tmpFiles
        /\ IF path = <<>> THEN Finish(fs, Response(FALSE, Err("path is required", {}, {})), Call("info", path))
           ELSE IF ~v.valid THEN Finish(v.fs, Response(FALSE, v.error), l0)
           ELSE IF ~Exists(v.fs, v.resolved)
                THEN Finish(v.fs, Response(FALSE, Err("Path not found", {v.resolved}, {})), l1)
           ELSE Finish(v.fs, Response(TRUE, NoError), l1)

\* --------------------------------------------------------- create_directory

create_directory(path, parents, exist_ok, mkdirFails) ==
    LET v == validate_path_in_sandbox(fs, path, mkdirFails)
        l0 == [Call("mkdir", path) EXCEPT !.wsCreated = v.fs # fs]
        l1 == [l0 EXCEPT !.io = {v.resolved}]
    IN  /\ UNCHANGED tmpFiles
        /\ IF path = <<>> THEN Finish(fs, Response(FALSE, Err("path is required", {}, {})), Call("mkdir", path))
           ELSE IF ~v.valid THEN Finish(v.fs, Response(FALSE, v.error), l0)
           ELSE IF IsDir(v.fs, v.resolved)
                THEN IF exist_ok THEN Finish(v.fs, Response(TRUE, NoError), l1)
                     ELSE Finish(v.fs, Response(FALSE, Err("Directory already exists", {v.resolved}, {})), l1)
           ELSE IF Exists(v.fs, v.resolved)
                THEN Finish(v.fs, Response(FALSE, Err("Path exists but is not a directory", {v.resolved}, {})), l1)
           ELSE IF MkdirFails(v.fs, v.resolved, parents)
                THEN Finish(v.fs, Response(FALSE, Err("Cannot create directory", {v.resolved}, {})), l1)
           ELSE Finish(MkdirParents(v.fs, v.resolved), Response(TRUE, NoError), l1)

\* ----------------------------------------------------------- list_directory

MAX_DIRECTORY_ENTRIES == 10000
MAX_RECURSION_DEPTH == 20

\* Two more kinds of node, for the listing: a run of n files of one
\* directory that iterdir yields one after the other and whose names match
\* the same patterns (they stand under one name), and a directory that
\* cannot be read (iterdir raises PermissionError).
Files(n) == [kind |-> "files", content |-> None, target |-> <<>>, count |-> n]
Unreadable == [kind |-> "dir", content |-> "unreadable", target |-> <<>>]

\* The names that end in ".py" and those that begin with "d".
PyNames == {"a.py", "b.py", "c.py", "e.py", "pkg.py"}
DNames == {"d1", "d2", "d3"}

\* fnmatch.fnmatch(name, pattern) for the patterns of the model: "*", "*.py",
\* "d*", and the patterns without a wildcard, which match the name they spell.
FnMatch(name, pattern) ==
    \/ pattern = "*"
    \/ name = pattern
    \/ pattern = "*.py" /\ name \in PyNames
    \/ pattern = "d*" /\ name \in DNames

\* The locations directly in the directory at c.
Children(f, c) == {q \in DOMAIN f : Len(q) = Len(c) + 1 /\ IsUnder(q, c)}

\* dir_path.iterdir(): the children in the order of the directory, which is
\* the file system's choice: one order or its reverse.
RECURSIVE SeqOf(_)
SeqOf(S) == IF S = {} THEN <<>>
            ELSE LET x == CHOOSE y \in S : TRUE IN <<x>> \o SeqOf(S \ {x})
Reverse(s) == [i \in 1..Len(s) |-> s[Len(s) + 1 - i]]
IterDir(f, c, reversed) ==
    IF reversed THEN Reverse(SeqOf(Children(f, c))) ELSE SeqOf(Children(f, c))

\* Where an entry leads: a symbolic link is followed (stat, is_dir, is_file).
Target(f, q) == IF f[q].kind = "link" THEN f[q].target ELSE q

\* How many files a location stands for.
CountOf(f, q) == IF f[q].kind = "files" THEN f[q].count ELSE 1

\* _get_entry_info: the entry's path as listed, where it really is, its
\* type and how many entries it stands for; none when stat fails (a dangling
\* link).
get_entry_info(f, shown, q, n) ==
    IF ~Exists(f, Target(f, q)) THEN <<>>
    ELSE <<[path |-> shown, loc |-> Target(f, q),
            type |-> IF IsDir(f, Target(f, q)) THEN "directory" ELSE "file",
            n |-> n]>>

\* What a listing has gathered: the entries, their number, and truncated.
Listing(entries, count, truncated) ==
    [entries |-> entries, count |-> count, truncated |-> truncated]

\* entries.extend(sub_entries) and `if sub_truncated: truncated = True`.
Extend(acc, sub) ==
    Listing(acc.entries \o sub.entries, acc.count + sub.count,
            acc.truncated \/ sub.truncated)

\* entries.append(entry_info) for the n files an entry stands for: each is
\* appended while the list is below the cap.
AppendInfo(acc, info, n) ==
    LET room == MAX_DIRECTORY_ENTRIES - acc.count
        taken == Min(n, room)
    IN  IF info = <<>> THEN acc
        ELSE Listing(acc.entries \o <<[info[1] EXCEPT !.n = taken]>>,
                     acc.count + taken, acc.truncated)

\* The loop of _list_single_level over the entries still to come;
\* pattern "" is no pattern.
RECURSIVE SingleLoop(_, _, _, _, _)
SingleLoop(f, shown, pattern, todo, acc) ==
    IF todo = <<>> THEN acc
    ELSE IF acc.count >= MAX_DIRECTORY_ENTRIES THEN [acc EXCEPT !.truncated = TRUE]
    ELSE LET q == Head(todo)
             entry == Append(shown, Last(q))
             n == CountOf(f, q)
             added == AppendInfo(acc, get_entry_info(f, entry, q, n), n)
         IN  IF pattern # "" /\ ~FnMatch(Last(q), pattern)
             THEN SingleLoop(f, shown, pattern, Tail(todo), acc)
             ELSE IF added.count - acc.count < n /\ added # acc
                  THEN [added EXCEPT !.truncated = TRUE]
                  ELSE SingleLoop(f, shown, pattern, Tail(todo), added)

list_single_level(f, shown, c, pattern, reversed) ==
    SingleLoop(f, shown, pattern, IterDir(f, c, reversed), Listing(<<>>, 0, FALSE))

\* What the recursive call on entry q returned.
SubOf(subs, q) == (CHOOSE p \in subs : p[1] = q)[2]

\* A loop that leaves out the directories whose names do not match the
\* pattern, and all that is below them.
RECURSIVE RecursiveLoopPruning(_, _, _, _, _, _)
RecursiveLoopPruning(f, shown, pattern, todo, subs, acc) ==
    IF todo = <<>> THEN acc
    ELSE IF acc.count >= MAX_DIRECTORY_ENTRIES THEN [acc EXCEPT !.truncated = TRUE]
    ELSE LET q == Head(todo)
             entry == Append(shown, Last(q))
             n == CountOf(f, q)
             added == AppendInfo(acc, get_entry_info(f, entry, q, n), n)
         IN  IF pattern # "" /\ ~FnMatch(Last(q), pattern)
             THEN RecursiveLoopPruning(f, shown, pattern, Tail(todo), subs, acc)
             ELSE IF added.count - acc.count < n /\ added # acc
                  THEN [added EXCEPT !.truncated = TRUE]
                  ELSE RecursiveLoopPruning(f, shown, pattern, Tail(todo), subs,
                                            Extend(added, SubOf(subs, q)))

\* The loop of _list_recursive over the entries still to come; subs holds
\* for every entry what the recursive call on it returns.
RECURSIVE RecursiveLoop(_, _, _, _, _, _)
RecursiveLoop(f, shown, pattern, todo, subs, acc) ==
    IF todo = <<>> THEN acc
    ELSE IF acc.count >= MAX_DIRECTORY_ENTRIES THEN [acc EXCEPT !.truncated = TRUE]
    ELSE LET q == Head(todo)
             entry == Append(shown, Last(q))
             n == CountOf(f, q)
             added == AppendInfo(acc, get_entry_info(f, entry, q, n), n)
         IN  IF pattern # "" /\ ~FnMatch(Last(q), pattern)
             THEN RecursiveLoop(f, shown, pattern, Tail(todo), subs,
                                Extend(acc, SubOf(subs, q)))
             ELSE IF added.count - acc.count < n /\ added # acc
                  THEN [added EXCEPT !.truncated = TRUE]
                  ELSE RecursiveLoop(f, shown, pattern, Tail(todo), subs,
                                     Extend(added, SubOf(subs, q)))

\* _list_recursive: the directory listed as `shown` lies at c.  The
\* recursive calls on the entries that are directories (entry.is_dir()
\* follows links) are evaluated before the loop that uses their results;
\* they read the file system only, so the result is that of the code.
RECURSIVE list_recursive(_, _, _, _, _, _, _)
list_recursive(f, shown, c, pattern, max_depth, current_depth, reversed) ==
    IF current_depth > max_depth \/ f[c] = Unreadable THEN Listing(<<>>, 0, FALSE)
    ELSE LET subs == {<<q, IF IsDir(f, Target(f, q))
                           THEN list_recursive(f, Append(shown, Last(q)), Target(f, q),
                                               pattern, max_depth, current_depth + 1,
                                               reversed)
                           ELSE Listing(<<>>, 0, FALSE)>> : q \in Children(f, c)}
         IN  IF subs = {} THEN Listing(<<>>, 0, FALSE)
             ELSE RecursiveLoop(f, shown, pattern, IterDir(f, c, reversed), subs,
                                Listing(<<>>, 0, FALSE))

\* max_depth 0 stands for an absent (or zero) max_depth: `max_depth or 20`.
list_directory(path, recursive, pattern, max_depth, reversed, mkdirFails) ==
    LET v == validate_path_in_sandbox(fs, path, mkdirFails)
        l00 == [Call("list", path) EXCEPT !.recursive = recursive, !.pattern = pattern,
                                          !.max_depth = {max_depth}]
        l0 == [l00 EXCEPT !.wsCreated = v.fs # fs]
        l1 == [l0 EXCEPT !.io = {v.resolved}]
        effective_max_depth ==
            Min(IF max_depth = 0 THEN MAX_RECURSION_DEPTH ELSE max_depth, MAX_RECURSION_DEPTH)
        listed == IF recursive
                  THEN list_recursive(v.fs, v.resolved, v.resolved, pattern,
                                      effective_max_depth, 0, reversed)
                  ELSE list_single_level(v.fs, v.resolved, v.resolved, pattern, reversed)
    IN  /\ UNCHANGED tmpFiles
        /\ IF path = <<>> THEN Finish(fs, Response(FALSE, Err("path is required", {}, {})), l00)
           ELSE IF ~v.valid THEN Finish(v.fs, Response(FALSE, v.error), l0)
           ELSE IF ~Exists(v.fs, v.resolved)
                THEN Finish(v.fs, Response(FALSE, Err("Directory not found", {v.resolved}, {})), l1)
           ELSE IF ~IsDir(v.fs, v.resolved)
                THEN Finish(v.fs, Response(FALSE, Err("Path is not a directory", {v.resolved}, {})), l1)
           ELSE IF ~recursive /\ v.fs[v.resolved] = Unreadable
                THEN Finish(v.fs, Response(FALSE, Err("Directory listing error", {}, {})), l1)
           ELSE Finish(v.fs,
                       [Response(TRUE, NoError) EXCEPT
                            !.entries = listed.entries, !.count = {listed.count},
                            !.truncated = listed.truncated],
                       [l1 EXCEPT !.io = {v.resolved}
                                         \cup {listed.entries[i].loc : i \in DOMAIN listed.entries}])

\* ------------------------------------------------------------ patch bodies

\* A patch body is the sequence of its file entries.  An entry holds the
\* text after "--- " and after "+++ " of its two header lines (a path string,
\* as a sequence of segments) and its one hunk: the content the file must
\* have for the hunk to apply, and the content it has afterwards.
DevNull == <<"", "dev", "null">>
Entry(old, new, from, to) == [old |-> old, new |-> new, from |-> from, to |-> to]

\* patch_content.split("\n"), the header lines only.
RECURSIVE HeaderLines(_)
HeaderLines(patch) ==
    IF patch = <<>> THEN <<>>
    ELSE <<[mark |-> "---", text |-> Head(patch).old],
           [mark |-> "+++", text |-> Head(patch).new]>> \o HeaderLines(Tail(patch))

\* line.startswith("--- a/") or line.startswith("+++ b/")
IsPrefixedHeader(line) ==
    /\ Len(line.text) >= 2
    /\ \/ line.mark = "---" /\ line.text[1] = "a"
       \/ line.mark = "+++" /\ line.text[1] = "b"

InSeq(x, seq) == \E i \in 1..Len(seq) : seq[i] = x

\* _extract_files_from_patch: line[6:] of every "--- a/" and "+++ b/" line,
\* without the empty path, "/dev/null" and repetitions, in order.
RECURSIVE ExtractFrom(_, _)
ExtractFrom(lines, files) ==
    IF lines = <<>> THEN files
    ELSE LET line == Head(lines)
             path == Tail(line.text)
         IN  IF IsPrefixedHeader(line) /\ path # <<"">> /\ ~InSeq(path, files)
                /\ path # DevNull
             THEN ExtractFrom(Tail(lines), Append(files, path))
             ELSE ExtractFrom(Tail(lines), files)

extract_files_from_patch(patch) == ExtractFrom(HeaderLines(patch), <<>>)

\* file_path.startswith("/")
StartsWithSlash(file_path) == file_path[1] = ""
\* ".." in file_path: the segments of the model hold ".." only as a whole.
HasDotDot(file_path) == InSeq("..", file_path)

\* _validate_patch_file_paths: (is_valid, error, validated_files); the first
\* path that fails ends the validation.
RECURSIVE ValidateFrom(_, _, _, _, _)
ValidateFrom(f, env, files, target_dir, validated) ==
    IF files = <<>> THEN [valid |-> TRUE, error |-> NoError, files |-> validated]
    ELSE LET file_path == Head(files)
             full_path == Walk(f, target_dir, file_path)
             a == check_in_allowed_roots(f, env, full_path)
             bad(kind) == [valid |-> FALSE, error |-> Err(kind, {file_path}, {}),
                           files |-> <<>>]
         IN  IF StartsWithSlash(file_path) THEN bad("Absolute path detected in patch")
             ELSE IF HasDotDot(file_path) THEN bad("Path traversal detected in patch")
             ELSE IF ~IsUnder(full_path, target_dir)
                  THEN bad("Path escapes target directory after resolution")
             ELSE IF ~a.allowed THEN bad("Patch file path is not within allowed repo roots")
             ELSE ValidateFrom(f, env, Tail(files), target_dir, Append(validated, file_path))

\* A variant that drops the paths that fail and validates the rest.
RECURSIVE SkipFrom(_, _, _, _, _)
SkipFrom(f, env, files, target_dir, validated) ==
    IF files = <<>> THEN [valid |-> TRUE, error |-> NoError, files |-> validated]
    ELSE LET one == ValidateFrom(f, env, <<Head(files)>>, target_dir, <<>>)
         IN  SkipFrom(f, env, Tail(files), target_dir, validated \o one.files)

validate_patch_paths_skipping(f, env, files, target_dir) ==
    SkipFrom(f, env, files, target_dir, <<>>)

validate_patch_file_paths(f, env, files, target_dir) ==
    ValidateFrom(f, env, files, target_dir, <<>>)

\* ----------------------------------------------------------------- backend

\* The file name a backend takes from an entry: the new name (the old one
\* when the file is deleted) without its first `strip` segments (-p<strip>).
BackendName(e, strip) ==
    LET text == IF e.new # DevNull THEN e.new ELSE e.old
    IN  IF Len(text) > strip THEN SubSeq(text, strip + 1, Len(text)) ELSE <<>>

\* git apply and patch refuse a name that is empty, absolute or holds "..".
SafeName(name) == name # <<>> /\ name[1] # "" /\ ~InSeq("..", name)

\* Where the backend, run in cwd, finds the entry's file.
BackendLoc(f, cwd, e, strip) == Walk(f, cwd, BackendName(e, strip))

\* A hunk that adds a line among lines equal to it: its result is the
\* content it starts from with one line more (written from \o "+"), and its
\* context is found again in what it produced.
Recurs(e) == e.to = e.from \o "+"

\* The contents such a hunk finds its context in.
RECURSIVE Grown(_, _)
Grown(c, n) == IF n = 0 THEN {c} ELSE {c} \cup Grown(c \o "+", n - 1)

MaxGrowth == 6

\* The entry's hunk applies: the file to create is missing, the file to
\* change or delete holds the content the hunk starts from.
Applies(f, cwd, e, strip) ==
    LET loc == BackendLoc(f, cwd, e, strip)
    IN  /\ SafeName(BackendName(e, strip))
        /\ IF e.old = DevNull THEN ~Exists(f, loc) /\ IsDir(f, Front(loc))
           ELSE /\ IsFile(f, loc)
                /\ \/ f[loc].content = e.from
                   \/ Recurs(e) /\ f[loc].content \in Grown(e.from, MaxGrowth)

ApplyEntry(f, cwd, e, strip) ==
    LET loc == BackendLoc(f, cwd, e, strip)
    IN  IF e.new = DevNull THEN Remove(f, loc)
        ELSE IF Recurs(e) THEN Put(f, loc, File(f[loc].content \o "+"))
        ELSE Put(f, loc, File(e.to))

\* The entries applied one after the other, an entry that does not apply
\* being skipped (a rejected hunk): [fs, applied (the entries' indices)].
RECURSIVE ApplyEach(_, _, _, _, _, _)
ApplyEach(f, cwd, patch, strip, i, applied) ==
    IF i > Len(patch) THEN [fs |-> f, applied |-> applied]
    ELSE IF Applies(f, cwd, patch[i], strip)
         THEN ApplyEach(ApplyEntry(f, cwd, patch[i], strip), cwd, patch, strip, i + 1,
                        applied \cup {i})
         ELSE ApplyEach(f, cwd, patch, strip, i + 1, applied)

\* A variant that starts the backend a second time when the first run did
\* not end with exit 0.
RunBackendRetrying(f, cwd, patch, strip, dry_run, is_git, fault) ==
    LET all == ApplyEach(f, cwd, patch, strip, 1, {})
        clean == all.applied = 1..Len(patch)
        mode == IF dry_run THEN "check" ELSE "apply"
    IN  IF fault = "none" /\ clean
        THEN [fs |-> IF dry_run THEN f ELSE all.fs, outcome |-> "exit 0",
              applied |-> IF dry_run THEN {} ELSE all.applied, runs |-> 1, mode |-> mode]
        ELSE [fs |-> f, outcome |-> IF fault = "none" THEN "exit 1" ELSE fault,
              applied |-> {}, runs |-> 2, mode |-> mode]

\* A variant that leaves out the check-only flag of a dry run.
RunBackendApplying(f, cwd, patch, strip, dry_run, is_git, fault) ==
    LET all == ApplyEach(f, cwd, patch, strip, 1, {})
        clean == all.applied = 1..Len(patch)
    IN  IF fault # "none"
        THEN [fs |-> f, outcome |-> fault, applied |-> {}, runs |-> 1, mode |-> "apply"]
        ELSE [fs |-> all.fs, outcome |-> IF clean THEN "exit 0" ELSE "exit 1",
              applied |-> all.applied, runs |-> 1, mode |-> "apply"]

\* subprocess.run of the backend in cwd.  fault is "none", "missing" (no
\* executable: FileNotFoundError) or "timeout" (killed after 60 s, when the
\* patch tool has applied only the first entry).  git apply changes all files
\* or none; patch changes the files whose hunks apply and exits non-zero when
\* one was rejected.  With dry_run (--check, --dry-run) no file is changed.
\* The result: the file system, the outcome, the entries applied, how often
\* a process was started, and the mode it ran in.
RunBackend(f, cwd, patch, strip, dry_run, is_git, fault) ==
    LET all == ApplyEach(f, cwd, patch, strip, 1, {})
        first == ApplyEach(f, cwd, SubSeq(patch, 1, 1), strip, 1, {})
        clean == all.applied = 1..Len(patch)
        ran(g, outcome, applied) ==
            [fs |-> g, outcome |-> outcome, applied |-> applied, runs |-> 1,
             mode |-> IF dry_run THEN "check" ELSE "apply"]
    IN  IF fault = "missing" THEN ran(f, "missing", {})
        ELSE IF fault = "timeout"
             THEN IF dry_run \/ is_git THEN ran(f, "timeout", {})
                  ELSE ran(first.fs, "timeout", first.applied)
        ELSE IF clean
             THEN ran(IF dry_run THEN f ELSE all.fs, "exit 0",
                      IF dry_run THEN {} ELSE all.applied)
        ELSE IF dry_run \/ is_git THEN ran(f, "exit 1", {})
        ELSE ran(all.fs, "exit 1", all.applied)

\* Where git itself finds a repository: a ".git" in the directory or in any
\* directory above it, the root directory included.
GitFinds(f, path) == \E q \in Prefixes(path) \cup {<<>>} : Exists(f, Append(q, ".git"))

\* A preview that is returned although git diff failed.
generate_diff_preview_despite_failure(f, target_dir, files, failure) ==
    files # {} /\ (failure \in {"error", "timeout"} \/ GitFinds(f, target_dir))

\* _generate_diff_preview: whether it returns a string: `git diff HEAD` of
\* the first modified file ran, exited with 0 and printed a diff.  It prints
\* none ("empty"), exits with an error ("error": no repository, no HEAD) or
\* runs into the timeout ("timeout"); each gives None.
generate_diff_preview(f, target_dir, files, failure) ==
    files # {} /\ failure = "none" /\ GitFinds(f, target_dir)

\* (resolved_target / ".git").exists() or _is_inside_git_repo(resolved_target)
\* (the walk up ends below the file system root, which it does not test).
is_inside_git_repo(f, path) == \E q \in Prefixes(path) : Exists(f, Append(q, ".git"))

\* ------------------------------------------------------ apply_patch_locally

\* The backup loop: every validated file that exists under the target
\* directory is copied, in order: [fs, backups].
RECURSIVE BackupEach(_, _, _, _, _, _)
BackupEach(f, resolved_target, files, now, copyFails, backups) ==
    IF files = <<>> THEN [fs |-> f, backups |-> backups]
    ELSE LET full_path == Walk(f, resolved_target, Head(files))
             b == create_backup(f, full_path, now, copyFails)
         IN  BackupEach(b.fs, resolved_target, Tail(files), now, copyFails,
                        backups \cup b.backup)

\* The files that exist in f and are changed or gone in g, with their
\* content in f.
Changed(f, g) ==
    {[loc |-> q, before |-> f[q].content] :
        q \in {x \in DOMAIN f : IsFile(f, x) /\ (x \notin DOMAIN g \/ g[x] # f[x])}}

\* os.unlink(patch_path)
Unlink(files, patch_path) == files \ {patch_path}

apply_patch_locally(patch, target_dir, strip, dry_run, backup, ft) ==
    LET v == validate_path_in_sandbox(fs, target_dir, ft.mkdir)
        a == check_in_allowed_roots(v.fs, allowedEnv, v.resolved)
        resolved_target == v.resolved
        patch_path == steps
        c0 == [Call("patch", target_dir) EXCEPT
                  !.patch = patch, !.strip = strip, !.dry_run = dry_run,
                  !.create_backup = backup, !.fault = ft]
        l0 == [c0 EXCEPT !.wsCreated = v.fs # fs, !.stage = "sandbox"]
        l1 == [l0 EXCEPT !.io = {resolved_target}, !.target = resolved_target]
        l2 == [l1 EXCEPT !.tmp = {patch_path}, !.stage = "temporary file"]
        files_to_patch == extract_files_from_patch(patch)
        val == validate_patch_file_paths(v.fs, allowedEnv, files_to_patch, resolved_target)
        l3 == [l2 EXCEPT !.extracted = files_to_patch, !.stage = "validation"]
        b == IF backup /\ ~dry_run
             THEN BackupEach(v.fs, resolved_target, val.files, clock, ft.copy, {})
             ELSE [fs |-> v.fs, backups |-> {}]
        l4 == [l3 EXCEPT !.backups = b.backups, !.stage = "backup",
                         !.io = {resolved_target} \cup b.backups]
        is_git_repo == is_inside_git_repo(b.fs, resolved_target)
        r == RunBackend(b.fs, resolved_target, patch, strip, dry_run, is_git_repo, ft.backend)
        files_modified == IF r.outcome = "exit 0"
                          THEN {BackendName(patch[i], strip) : i \in r.applied}
                          ELSE {}
        l5 == [l4 EXCEPT !.backend = r.runs, !.stage = "backend",
                         !.is_git = {is_git_repo}, !.mode = r.mode, !.outcome = r.outcome,
                         !.changed = Changed(b.fs, r.fs),
                         !.io = {resolved_target} \cup b.backups
                                  \cup {x.loc : x \in Changed(b.fs, r.fs)}]
    IN  IF patch = <<>>
        THEN Finish(fs, [Response(FALSE, Err("patch_content is required", {}, {}))
                            EXCEPT !.error_message = TRUE], c0)
             /\ UNCHANGED tmpFiles
        ELSE IF target_dir = <<>>
             THEN Finish(fs, [Response(FALSE, Err("target_dir is required", {}, {}))
                                 EXCEPT !.error_message = TRUE], c0)
                  /\ UNCHANGED tmpFiles
        ELSE IF ~v.valid
             THEN Finish(v.fs, [Response(FALSE, v.error) EXCEPT !.error_message = TRUE], l0)
                  /\ UNCHANGED tmpFiles
        ELSE IF ~a.allowed
             THEN Finish(v.fs, [Response(FALSE, a.error) EXCEPT !.error_message = TRUE], l0)
                  /\ UNCHANGED tmpFiles
        ELSE IF ~Exists(v.fs, resolved_target)
             THEN Finish(v.fs, [Response(FALSE, Err("Target directory does not exist",
                                                    {resolved_target}, {}))
                                   EXCEPT !.error_message = TRUE], l1)
                  /\ UNCHANGED tmpFiles
        ELSE IF ~IsDir(v.fs, resolved_target)
             THEN Finish(v.fs, [Response(FALSE, Err("Target path is not a directory",
                                                    {resolved_target}, {}))
                                   EXCEPT !.error_message = TRUE], l1)
                  /\ UNCHANGED tmpFiles
        ELSE IF ft.tmp = "create"
             THEN Finish(v.fs, Response(FALSE, Err("Cannot create temporary patch file", {}, {})), l1)
                  /\ UNCHANGED tmpFiles
        ELSE IF ft.tmp = "write"
             THEN Finish(v.fs, Response(FALSE, Err("Cannot create temporary patch file", {}, {})), l2)
                  /\ tmpFiles' = tmpFiles \cup {patch_path}
        ELSE IF ft.tmp = "encode"
             THEN Finish(v.fs, Raised("UnicodeEncodeError"), l2)
                  /\ tmpFiles' = tmpFiles \cup {patch_path}
        ELSE IF ~val.valid
             THEN Finish(v.fs, [Response(FALSE, val.error) EXCEPT !.error_message = TRUE], l3)
                  /\ tmpFiles' = Unlink(tmpFiles \cup {patch_path}, patch_path)
        ELSE IF backup /\ ~dry_run /\ val.files # <<>> /\ ft.stat
             THEN Finish(v.fs, Raised("PermissionError"), [l3 EXCEPT !.stage = "backup"])
                  /\ tmpFiles' = tmpFiles \cup {patch_path}
        ELSE /\ Finish(r.fs,
                       [Response(r.outcome = "exit 0",
                                 IF r.outcome = "exit 0" THEN NoError ELSE Err(r.outcome, {}, {}))
                           EXCEPT !.backup_path = b.backups,
                                  !.files_modified = files_modified,
                                  !.conflicts = (r.outcome = "exit 1"),
                                  !.diff_preview =
                                      /\ r.outcome = "exit 0" /\ ~dry_run
                                      /\ generate_diff_preview(r.fs, resolved_target, files_modified,
                                                                ft.preview)],
                       l5)
             /\ tmpFiles' = Unlink(tmpFiles \cup {patch_path}, patch_path)

\* ------------------------------------------------------------------- clock

Tick ==
    /\ clock < MaxClock
    /\ clock' = clock + 1
    /\ UNCHANGED <<fs, allowedEnv, tmpFiles, made, resp, last, steps, writers, lastWrite>>

\* ------------------------------------------------------------ initial state

\* A checkout: two repositories (proj under git), a directory outside the
\* configured roots, a link out of the workspace and a link out of repo.
Checkout ==
    (WS :> Dir) @@ (Repo :> Dir) @@ (Proj :> Dir) @@ (Other :> Dir)
    @@ (Append(Repo, "f") :> File("0")) @@ (Append(Proj, "f") :> File("0"))
    @@ (Append(Proj, ".git") :> Dir) @@ (Append(Other, "g") :> File("0"))
    @@ (Append(WS, "lnk") :> Link(Etc)) @@ (Append(Repo, "out") :> Link(Other))
    @@ (Etc :> Dir) @@ (Append(Etc, "p") :> File("0"))

\* The machine before the workspace root exists.
NoWorkspace == (Etc :> Dir) @@ (Append(Etc, "p") :> File("0"))

\* ALLOWED_REPO_ROOTS unset, and set to "/ws/repo:/ws/proj".
Unset == <<>>
TwoRepos == << <<"", "ws", "repo">>, <<"", "ws", "proj">> >>

\* The concurrent callers of write_local_file, and a caller between calls:
\* pc is "idle", "backup" (before l.401), "open" (before write_text opens
\* the file), "write" (the file is open and truncated, the text not yet
\* written), "stat" (before l.408); response is the set of the responses
\* returned by its last call.
Writers == {1, 2}
Idle ==
    [pc |-> "idle", content |-> "", create_backup |-> FALSE, target |-> <<>>,
     backup_path |-> {}, response |-> {}, calls |-> 0]

InitWith(files, envs) ==
    /\ fs \in files
    /\ allowedEnv \in envs
    /\ clock = 0
    /\ tmpFiles = {}
    /\ made = [b \in {} |-> ""]
    /\ resp = Response(TRUE, NoError)
    /\ last = Call("none", <<>>)
    /\ steps = 0
    /\ writers = [w \in Writers |-> Idle]
    /\ lastWrite = 0

\* ------------------------------------------------- the sandbox specification

\* The paths a caller passes: inside the roots, inside the workspace and
\* outside the roots, outside the workspace (absolute, through "..", through
\* a link), with ".." and inside, missing, empty; files and directories.
Paths ==
    {<<>>, <<"repo", "f">>, <<"repo", "..", "repo", "f">>, <<"..", "etc", "p">>,
     <<"", "etc", "p">>, <<"lnk", "p">>, <<"other", "g">>, <<"repo", "d", "h">>,
     <<"repo">>, <<"other">>, <<"lnk">>}

PatchOk == <<Entry(<<"a", "f">>, <<"b", "f">>, "0", "P")>>

\* The workspace root can fail to be created only while it is missing.
MkdirFaults == IF Exists(fs, get_workspace_root) THEN {FALSE} ELSE BOOLEAN

Init == InitWith({Checkout, NoWorkspace}, {Unset, TwoRepos})

Read ==
    /\ steps < MaxOps
    /\ \E path \in Paths, mkdirFails \in MkdirFaults :
           read_local_file(path, MAX_READ_FILE_SIZE, DEFAULT_MAX_LINES,
                           [NoFault EXCEPT !.mkdir = mkdirFails])

Write ==
    /\ steps < MaxOps
    /\ \E path \in Paths, mkdirFails \in MkdirFaults, create_dirs \in BOOLEAN,
          content \in {"A", Big} :
           write_local_file(path, content, create_dirs, TRUE,
                            [NoFault EXCEPT !.mkdir = mkdirFails])

List ==
    /\ steps < MaxOps
    /\ \E path \in Paths, mkdirFails \in MkdirFaults, recursive \in BOOLEAN :
           list_directory(path, recursive, "", 0, FALSE, mkdirFails)

Info ==
    /\ steps < MaxOps
    /\ \E path \in Paths, mkdirFails \in MkdirFaults : get_file_info(path, mkdirFails)

Mkdir ==
    /\ steps < MaxOps
    /\ \E path \in Paths, mkdirFails \in MkdirFaults :
           create_directory(path, TRUE, TRUE, mkdirFails)

Patch ==
    /\ steps < MaxOps
    /\ \E path \in Paths, mkdirFails \in MkdirFaults, patch \in {<<>>, PatchOk} :
           apply_patch_locally(patch, path, 1, FALSE, TRUE,
                               [NoFault EXCEPT !.mkdir = mkdirFails])

Next == Read \/ Write \/ List \/ Info \/ Mkdir \/ Patch

Spec == Init /\ [][Next]_vars

\* --------------------------------------------------- the patch specification

\* "--- f" / "+++ f": the headers of `diff -u`, without the a/ and b/.
PatchNoPrefix == <<Entry(<<"f">>, <<"f">>, "0", "P")>>
\* "--- a/repo/f": the file's path from above the target directory (-p2).
PatchDeep == <<Entry(<<"a", "repo", "f">>, <<"b", "repo", "f">>, "0", "P")>>
\* "--- /etc/p" / "+++ /etc/p"
PatchAbs == <<Entry(<<"", "etc", "p">>, <<"", "etc", "p">>, "0", "P")>>
\* "--- a//etc/p" / "+++ b//etc/p"
PatchAbsPrefixed == <<Entry(<<"a", "", "etc", "p">>, <<"b", "", "etc", "p">>, "0", "P")>>
\* "--- a/../other/g" / "+++ b/../other/g"
PatchDotDot == <<Entry(<<"a", "..", "other", "g">>, <<"b", "..", "other", "g">>, "0", "P")>>
\* "--- ../other/g" / "+++ ../other/g"
PatchDotDotNoPrefix == <<Entry(<<"..", "other", "g">>, <<"..", "other", "g">>, "0", "P")>>
\* A valid file, then one through "..".
\* "--- ../f": with -p1 the backend drops "../" and patches f.
PatchDotDotStripped == <<Entry(<<"..", "f">>, <<"..", "f">>, "0", "P")>>
PatchMixed == PatchOk \o PatchDotDot
\* "--- a/out/g": through the link repo/out, which leaves the target.
PatchEscape == <<Entry(<<"a", "out", "g">>, <<"b", "out", "g">>, "0", "P")>>
\* A file that is there, then one that is missing: the second hunk is rejected.
PatchTwo == PatchOk \o <<Entry(<<"a", "h">>, <<"b", "h">>, "0", "P")>>
\* A new file.
PatchCreate == <<Entry(DevNull, <<"b", "n">>, "", "P")>>

PatchBodies ==
    {<<>>, PatchOk, PatchNoPrefix, PatchDeep, PatchAbs, PatchAbsPrefixed, PatchDotDot,
     PatchDotDotNoPrefix, PatchDotDotStripped, PatchMixed, PatchEscape, PatchTwo,
     PatchCreate}

Strips == {0, 1, 2}

PatchFaults ==
    {[NoFault EXCEPT !.tmp = t] : t \in {"create", "write", "encode"}}
    \cup {[NoFault EXCEPT !.backend = x] : x \in {"missing", "timeout"}}
    \cup {[NoFault EXCEPT !.stat = TRUE], [NoFault EXCEPT !.copy = TRUE]}

\* The calls of the patch specification: in repo (no git) every body with
\* every strip count and flag; in proj (under git) the bodies that reach the
\* backend; and the faults on a body of two files, in both.
PatchCalls ==
    [patch : PatchBodies, target_dir : {<<"repo">>}, strip : Strips,
     dry_run : BOOLEAN, create_backup : BOOLEAN, fault : {NoFault}]
    \cup [patch : {PatchOk, PatchTwo, PatchMixed}, target_dir : {<<"proj">>}, strip : {1},
          dry_run : BOOLEAN, create_backup : BOOLEAN, fault : {NoFault}]
    \cup [patch : {PatchTwo}, target_dir : {<<"repo">>, <<"proj">>}, strip : {1},
          dry_run : BOOLEAN, create_backup : BOOLEAN, fault : PatchFaults]

InitPatch == InitWith({Checkout}, {Unset, TwoRepos})

PatchCall ==
    /\ steps < MaxPatchOps
    /\ \E c \in PatchCalls :
           apply_patch_locally(c.patch, c.target_dir, c.strip, c.dry_run, c.create_backup,
                               c.fault)

NextPatch == PatchCall

SpecPatch == InitPatch /\ [][NextPatch]_vars

\* -------------------------------------------------- the backup specification

\* "--- a/f.bak" / "+++ /dev/null": the patch deletes the backup of f.
PatchDeleteBak == <<Entry(<<"a", "f.bak">>, DevNull, "0", "")>>
\* A patch of f whose hunk adds a line among equal lines.
PatchInsert == <<Entry(<<"a", "f">>, <<"b", "f">>, "0", "0+")>>

BackupPaths == {<<"repo", "f">>, <<"repo">>}

WriteFaults == {NoFault, [NoFault EXCEPT !.copy = TRUE], [NoFault EXCEPT !.write = TRUE]}

InitBackup == InitWith({Checkout}, {Unset})

BackupWrite ==
    /\ steps < MaxBackupOps
    /\ \E content \in Contents, backup \in BOOLEAN, ft \in WriteFaults :
           write_local_file(<<"repo", "f">>, content, TRUE, backup, ft)

BackupPatch ==
    /\ steps < MaxBackupOps
    /\ \E patch \in {PatchOk, PatchDeleteBak},
          ft \in {NoFault, [NoFault EXCEPT !.copy = TRUE]} :
           apply_patch_locally(patch, <<"repo">>, 1, FALSE, TRUE, ft)

BackupRead ==
    /\ steps < MaxBackupOps
    /\ \E path \in BackupPaths :
           read_local_file(path, MAX_READ_FILE_SIZE, DEFAULT_MAX_LINES, NoFault)

BackupList ==
    /\ steps < MaxBackupOps
    /\ \E path \in BackupPaths : list_directory(path, TRUE, "", 0, FALSE, FALSE)

BackupInfo ==
    /\ steps < MaxBackupOps
    /\ \E path \in BackupPaths : get_file_info(path, FALSE)

BackupMkdir ==
    /\ steps < MaxBackupOps
    /\ \E path \in BackupPaths \cup {<<"repo", "d">>} :
           create_directory(path, TRUE, TRUE, FALSE)

NextBackup ==
    BackupWrite \/ BackupPatch \/ BackupRead \/ BackupList \/ BackupInfo \/ BackupMkdir
    \/ Tick

SpecBackup == InitBackup /\ [][NextBackup]_vars

\* ------------------------------------------------- content specification

MaxContentOps == 2

\* The checkout with files of every kind of content in repo.
Library ==
    (Append(Repo, "img.txt") :> File(PngThenText)) @@ (Append(Repo, "shot.png") :> File(PngImage))
    @@ (Append(Repo, "exact") :> File(ExactText)) @@ (Append(Repo, "huge") :> File(HugeText))
    @@ (Append(Repo, "huge.png") :> File(HugeImage)) @@ Checkout

WrittenPaths == {<<"repo", "n.txt">>, <<"repo", "f">>, <<"repo", "d", "n">>}

ReadPaths ==
    WrittenPaths \cup {<<"repo", "img.txt">>, <<"repo", "shot.png">>, <<"repo", "exact">>,
                       <<"repo", "huge">>, <<"repo", "huge.png">>, <<"repo">>}

WrittenContents ==
    {"A", "", CrLfText, MzText, PdfText, NulText, Big, WideText, SurrogateText}

\* A small max_size, below most files of the library.
SmallMaxSize == 3

ReadFaults ==
    {[NoFault EXCEPT !.stat = TRUE]}
    \cup {[NoFault EXCEPT !.read = x] : x \in {"open", "oserror", "lookup"}}

InitContent == InitWith({Library}, {Unset})

ContentWrite ==
    /\ steps < MaxContentOps
    /\ \E path \in WrittenPaths, content \in WrittenContents, flag \in BOOLEAN :
           IF path = <<"repo", "d", "n">>
           THEN write_local_file(path, content, flag, TRUE, NoFault)
           ELSE write_local_file(path, content, TRUE, flag, NoFault)

ContentRead ==
    /\ steps < MaxContentOps
    /\ \E path \in ReadPaths :
           \/ \E max_size \in {MAX_READ_FILE_SIZE, SmallMaxSize},
                 max_lines \in {DEFAULT_MAX_LINES, 1} :
                  read_local_file(path, max_size, max_lines, NoFault)
           \/ \E ft \in ReadFaults :
                  read_local_file(path, MAX_READ_FILE_SIZE, DEFAULT_MAX_LINES, ft)

NextContent == ContentWrite \/ ContentRead

SpecContent == InitContent /\ [][NextContent]_vars

\* ----------------------------------------------- selection specification

MaxSelectOps == 2

\* The checkout on a file system whose root directory is a git repository.
RootRepo == (<<".git">> :> Dir) @@ Checkout

SelectDirs == {<<"repo">>, <<"proj">>, <<".">>}

InitSelect == InitWith({Checkout, RootRepo}, {Unset})

\* The ways git diff can fail to give a preview; they are tried on the one
\* request that can have one.
PreviewFaults(patch, target_dir, dry_run, backup) ==
    IF patch = PatchOk /\ target_dir = <<"proj">> /\ ~backup
    THEN {[NoFault EXCEPT !.preview = x] : x \in {"none", "empty", "error", "timeout"}}
         \cup {[NoFault EXCEPT !.backend = "timeout"]}
    ELSE {NoFault}

SelectPatch ==
    /\ steps < MaxSelectOps
    /\ \E patch \in {PatchOk, PatchCreate, PatchInsert}, target_dir \in SelectDirs,
          dry_run \in BOOLEAN, backup \in BOOLEAN :
           \E ft \in PreviewFaults(patch, target_dir, dry_run, backup) :
               apply_patch_locally(patch, target_dir, 1, dry_run, backup, ft)

NextSelect == SelectPatch

SpecSelect == InitSelect /\ [][NextSelect]_vars

\* ------------------------------------------------- the listing specification

MaxListOps == 1

Tree == <<"ws", "tree">>
Bigger == <<"ws", "big">>
Outside == <<"outside">>

\* A workspace to list: a tree three directories deep with Python files at
\* every level; two directories of 6000 files each; directories of 10001 and
\* of 10000 files, one of them below the listed one; links out of the
\* workspace and to nowhere, and a link back to its own directory; a directory that
\* cannot be read.
Forest ==
    (WS :> Dir) @@ (Tree :> Dir)
    @@ (Tree \o <<"a.py">> :> File("0")) @@ (Tree \o <<"a.txt">> :> File("0"))
    @@ (Tree \o <<"d1">> :> Dir) @@ (Tree \o <<"d1", "b.py">> :> File("0"))
    @@ (Tree \o <<"d1", "d2">> :> Dir) @@ (Tree \o <<"d1", "d2", "c.py">> :> File("0"))
    @@ (Tree \o <<"d1", "d2", "d3">> :> Dir)
    @@ (Tree \o <<"d1", "d2", "d3", "e.py">> :> File("0"))
    @@ (Bigger :> Dir) @@ (Bigger \o <<"x">> :> Dir) @@ (Bigger \o <<"y">> :> Dir)
    @@ (Bigger \o <<"x", "files">> :> Files(6000))
    @@ (Bigger \o <<"y", "files">> :> Files(6000))
    @@ (<<"ws", "flat">> :> Dir) @@ (<<"ws", "flat", "files">> :> Files(10001))
    @@ (<<"ws", "exact">> :> Dir) @@ (<<"ws", "exact", "files">> :> Files(10000))
    @@ (<<"ws", "up">> :> Dir) @@ (<<"ws", "up", "s">> :> Dir)
    @@ (<<"ws", "up", "s", "files">> :> Files(10001))
    @@ (<<"ws", "lk">> :> Dir) @@ (<<"ws", "lk", "out">> :> Link(Outside))
    @@ (<<"ws", "cyc">> :> Dir) @@ (<<"ws", "cyc", "loop">> :> Link(<<"ws", "cyc">>))
    @@ (<<"ws", "lk", "dangling">> :> Link(<<"nowhere">>))
    @@ (<<"ws", "lock">> :> Dir) @@ (<<"ws", "lock", "in">> :> Unreadable)
    @@ (<<"ws", "lock", "in", "c.py">> :> File("0"))
    @@ (Outside :> Dir) @@ (Outside \o <<"sub">> :> Dir)
    @@ (Outside \o <<"sub", "secret">> :> File("0"))

ListPaths ==
    {<<"tree">>, <<"big">>, <<"flat">>, <<"exact">>, <<"up">>, <<"lk">>, <<"cyc">>,
     <<"lock">>,
     <<"lock", "in">>}

\* The requests: every directory with and without recursion, no pattern and
\* two patterns, max_depth absent, 1 and 2; max_depth 25 for the directory
\* whose link loop is deeper than the ceiling; the reverse directory order
\* where the order decides what the cap leaves out.
ListCalls ==
    {c \in [path : ListPaths, recursive : BOOLEAN, pattern : {"", "*.py", "d*"},
            max_depth : {0, 1, 2, 25}, reversed : BOOLEAN] :
        /\ c.max_depth = 25 => (c.path = <<"cyc">> /\ c.recursive /\ c.pattern = "")
        /\ c.reversed => (c.path \in {<<"big">>, <<"up">>} /\ c.pattern = "")
        /\ ~c.recursive => c.max_depth = 0}

InitList == InitWith({Forest}, {Unset})

ListCall ==
    /\ steps < MaxListOps
    /\ \E c \in ListCalls :
           list_directory(c.path, c.recursive, c.pattern, c.max_depth, c.reversed, FALSE)

NextList == ListCall

SpecList == InitList /\ [][NextList]_vars

\* ---------------------------------------------- the concurrent-writes specification

MaxRaceCalls == 1

\* The texts the concurrent callers write: ASCII, a byte for a character, of
\* different lengths and of the same length.
RaceContents == {"AAAA", "BB", "CC"}
RacePath == <<"repo", "f">>

\* The bytes of a file after `text` is written at its beginning: what was
\* beyond the end of the text stays.
WriteAtStart(old, text) ==
    IF Len(old) > Len(text) THEN text \o SubSeq(old, Len(text) + 1, Len(old)) ELSE text

\* The steps of one write_local_file call that run without a lock between
\* them.  RaceCall: the argument, size, sandbox and parent checks (l.350-399).
RaceCall(w) ==
    /\ writers[w].pc = "idle" /\ writers[w].calls < MaxRaceCalls
    /\ \E content \in RaceContents, backup \in BOOLEAN :
           LET v == validate_path_in_sandbox(fs, RacePath, FALSE)
           IN  /\ v.valid /\ check_in_allowed_roots(v.fs, allowedEnv, v.resolved).allowed
               /\ Len(content) <= MAX_WRITE_FILE_SIZE
               /\ Exists(v.fs, Front(v.resolved))
               /\ writers' = [writers EXCEPT ![w] =
                                 [@ EXCEPT !.pc = "backup", !.content = content,
                                           !.create_backup = backup, !.target = v.resolved,
                                           !.backup_path = {}, !.response = {}]]
    /\ UNCHANGED <<fs, allowedEnv, clock, tmpFiles, made, resp, last, steps, lastWrite>>

\* l.401-404: the backup of the file as it is now.
RaceBackup(w) ==
    /\ writers[w].pc = "backup"
    /\ LET b == IF writers[w].create_backup /\ Exists(fs, writers[w].target)
                THEN create_backup(fs, writers[w].target, clock, FALSE)
                ELSE [fs |-> fs, backup |-> {}]
       IN  /\ fs' = b.fs
           /\ writers' = [writers EXCEPT ![w] = [@ EXCEPT !.pc = "open",
                                                          !.backup_path = b.backup]]
    /\ UNCHANGED <<allowedEnv, clock, tmpFiles, made, resp, last, steps, lastWrite>>

\* write_text (l.407) opens the file for writing: it is created or cut to
\* no bytes.
RaceOpen(w) ==
    /\ writers[w].pc = "open"
    /\ fs' = Put(fs, writers[w].target, File(""))
    /\ writers' = [writers EXCEPT ![w] = [@ EXCEPT !.pc = "write"]]
    /\ UNCHANGED <<allowedEnv, clock, tmpFiles, made, resp, last, steps, lastWrite>>

\* write_text then writes the text, from the beginning of the file, and
\* closes it (the texts of the model fit one buffer: one write).
RaceWrite(w) ==
    /\ writers[w].pc = "write"
    /\ fs' = Put(fs, writers[w].target,
                 File(WriteAtStart(fs[writers[w].target].content, writers[w].content)))
    /\ lastWrite' = w
    /\ writers' = [writers EXCEPT ![w] = [@ EXCEPT !.pc = "stat"]]
    /\ UNCHANGED <<allowedEnv, clock, tmpFiles, made, resp, last, steps>>

\* l.408-418: the size of the file as it is now, and the response.
RaceReturn(w) ==
    /\ writers[w].pc = "stat"
    /\ writers' = [writers EXCEPT ![w] =
                      [@ EXCEPT !.pc = "idle", !.calls = @ + 1,
                                !.response =
                                    {[Response(TRUE, NoError) EXCEPT
                                         !.backup_path = writers[w].backup_path,
                                         !.size = {Len(fs[writers[w].target].content)}]}]]
    /\ UNCHANGED <<fs, allowedEnv, clock, tmpFiles, made, resp, last, steps, lastWrite>>

InitRace == InitWith({Checkout}, {Unset})

NextRace ==
    \E w \in Writers :
        RaceCall(w) \/ RaceBackup(w) \/ RaceOpen(w) \/ RaceWrite(w) \/ RaceReturn(w)

SpecRace == InitRace /\ [][NextRace]_vars

\* ------------------------------------------------------------------ claims

PathOps == {"read", "write", "list", "info", "mkdir", "patch"}

\* The canonical form of the last call's path lies in the workspace root.
LastInside == IsUnder(Resolve(fs, last.path), WS)

\* The error of the response names the path given and the workspace root.
NamesPathAndRoot == resp.error.paths = {last.path} /\ resp.error.roots = {WS}

EarlierRefusals ==
    {"patch_content is required", "Content size exceeds maximum",
     "Cannot create workspace root"}

C2_Original ==
    last.op \in PathOps /\ last.io # {} =>
        /\ LastInside
        /\ \E root \in get_allowed_repo_roots(fs, allowedEnv) :
               IsUnder(Resolve(fs, last.path), root)

\* A caller's path has a ".." segment.
LastHasDotDot == InSeq("..", last.path)

UnsafeHeader(text) ==
    /\ text # DevNull
    /\ \/ InSeq("..", text)
       \/ text # <<>> /\ text[1] = ""
       \/ Len(text) >= 2 /\ text[1] \in {"a", "b"} /\ text[2] = ""

HasUnsafeHeader(patch) ==
    \E i \in 1..Len(patch) : UnsafeHeader(patch[i].old) \/ UnsafeHeader(patch[i].new)

\* The last call is a patch request that got as far as reading the body.
PatchBodyRead ==
    last.op = "patch" /\ last.stage \in {"validation", "backup", "backend"}

\* C4, as stated: for every patch body in which a header references an
\* absolute path or a path with "..", apply_patch_locally answers ok:false
\* and starts no backend process, for every strip count.
C4_Original ==
    last.op = "patch" /\ HasUnsafeHeader(last.patch) => ~resp.ok /\ last.backend = 0

\* An extracted path fails validation, as the patch request states it: it is
\* absolute, holds "..", leaves the target directory once resolved, or lies
\* outside every allowed root.
FailsValidation(f, env, target, file_path) ==
    LET full == Walk(f, target, file_path)
    IN  \/ file_path[1] = ""
        \/ InSeq("..", file_path)
        \/ ~IsUnder(full, target)
        \/ \A root \in get_allowed_repo_roots(f, env) : ~IsUnder(full, root)

SomeExtractedFails ==
    \E i \in 1..Len(last.extracted) :
        FailsValidation(fs, allowedEnv, last.target, last.extracted[i])

\* C5: when one path extracted from a patch fails validation the whole
\* request is aborted, even if other paths are valid: no backup is created,
\* no backend is started, no file is changed, and the response is ok:false
\* with an error that names a failing path.
C5_AbortsWhole ==
    [][(PatchBodyRead' /\ SomeExtractedFails')
         => /\ ~resp'.ok /\ ~resp'.raised
            /\ resp'.error.kind # "" /\ resp'.error_message
            /\ \E file_path \in resp'.error.paths :
                   FailsValidation(fs', allowedEnv', last'.target, file_path)
            /\ last'.backups = {} /\ last'.backend = 0 /\ last'.changed = {}
            /\ fs' = fs]_vars

\* C5's case: a body with a valid path and one with "..", backups enabled and
\* no dry run, is refused at validation with the file it names untouched.
C5_Witness ==
    /\ last.op = "patch" /\ last.patch = PatchMixed /\ last.stage = "validation"
    /\ last.create_backup /\ ~last.dry_run /\ last.strip = 1
    /\ ~resp.ok /\ resp.error.kind = "Path traversal detected in patch"
    /\ fs[Append(last.target, "f")] = File("0")
    /\ ~Exists(fs, BakName(Append(last.target, "f")))

\* C6, as stated: with create_backup and without dry_run, every file that
\* exists before the request and that the backend modifies has a backup that
\* holds its content from before the patch, for every strip count and every
\* header form the backend accepts (here without any fault of the system).
C6_Original ==
    (last.op = "patch" /\ last.create_backup /\ ~last.dry_run /\ last.fault = NoFault)
        => \A x \in last.changed :
               \E b \in last.backups : Exists(fs, b) /\ fs[b].content = x.before

\* C10, as stated: on every exit of apply_patch_locally taken after the
\* temporary patch file was created, that file no longer exists when the call
\* ends.
C10_Original ==
    last.op = "patch" /\ last.tmp # {} => last.tmp \cap tmpFiles = {}

\* ----------------------------------------------------------- backup claims

\* The last call is a backup-enabled write over a file that existed.
BackupWriteOver ==
    last.op = "write" /\ last.create_backup /\ last.before # {}

\* Some backup the response names holds the content from before the write.
BackupHoldsBefore ==
    \E b \in resp.backup_path : IsFile(fs, b) /\ fs[b].content \in last.before

\* C7, as stated: given create_backup and a target file that exists, whenever
\* write_local_file returns ok:true a backup file exists whose content is the
\* file's content immediately before the write.
C7_Original ==
    BackupWriteOver /\ resp.ok => BackupHoldsBefore

\* C7, amended: given create_backup and a target file that exists, whenever
\* write_local_file returns ok:true and the copy of the backup did not fail,
\* a backup file exists whose content is the file's content immediately
\* before the write; when the copy fails the write still returns ok:true,
\* without a backup_path.
C7_BackupUnlessCopyFails ==
    BackupWriteOver /\ resp.ok =>
        IF last.fault.copy THEN resp.backup_path = {} ELSE BackupHoldsBefore

\* C7's case: the second backup-enabled write to a file, whose timestamped
\* backup holds what the first write wrote.
C7_Witness ==
    /\ BackupWriteOver /\ resp.ok /\ ~last.fault.copy
    /\ resp.backup_path = {TsBakName(last.target, clock)}
    /\ fs[TsBakName(last.target, clock)].content \in Contents
    /\ fs[last.target].content # fs[TsBakName(last.target, clock)].content

\* C8, as stated: creating a backup never overwrites a backup created
\* before: every backup an earlier call wrote still holds the content it was
\* created with, also over several calls within one clock second.
C8_Original ==
    [][\A b \in DOMAIN made :
           (Exists(fs, b) /\ b \in last'.backups) => (Exists(fs', b) /\ fs'[b] = fs[b])]_vars

\* C9, as stated: after any sequence of operations every backup the engine
\* has created still exists; no operation deletes a backup.
C9_Original ==
    \A b \in DOMAIN made : Exists(fs, b)

\* The patch of the last call deletes the file at loc.
PatchDeletes(loc) ==
    /\ last.op = "patch"
    /\ \E i \in 1..Len(last.patch) :
           /\ last.patch[i].new = DevNull
           /\ Walk(fs, last.target, BackendName(last.patch[i], last.strip)) = loc

\* C9, amended: no operation deletes a backup the engine has created, except
\* a patch whose body deletes that file; read, write, list, file-info and
\* mkdir, the backup step and the clean-up of a patch never do.
C9_NoDeletion ==
    [][\A b \in DOMAIN made :
           (Exists(fs, b) /\ ~Exists(fs', b)) => PatchDeletes(b)']_vars

\* C9's case: two backups made by two writes are both there after a patch
\* of the file that made a third.
C9_Witness ==
    /\ last.op = "patch" /\ last.patch = PatchOk /\ last.backups # {}
    /\ Cardinality(DOMAIN made) >= 2
    /\ \A b \in DOMAIN made : Exists(fs, b)

\* ---------------------------------------------------------- content claims

\* C11, as stated: every operation, for every argument mapping and every
\* failure of the file system or the backend, returns a response with a
\* boolean ok and, when ok is false, an error string; no failure reaches the
\* caller as an exception.
C11_Original ==
    last.op \in PathOps => ~resp.raised /\ (~resp.ok => resp.error.kind # "")

\* The last call is a read without faults, limits at their defaults, of the
\* path the call before it wrote with success.
ReadsBackWritten ==
    /\ last.op = "write" /\ resp.ok
    /\ last'.op = "read" /\ last'.path = last.path /\ steps' = steps + 1
    /\ last'.fault = NoFault
    /\ last'.max_size = {MAX_READ_FILE_SIZE} /\ last'.max_lines = {DEFAULT_MAX_LINES}

\* C12, as stated: for every text C within the write cap and every valid
\* path p, write_local_file(p, C) followed by read_local_file(p) without
\* line truncation returns ok:true with content exactly C, and the size the
\* write and the read report is the encoded byte length of C.
C12_Original ==
    [][ReadsBackWritten
         => /\ resp'.ok /\ resp'.content = last.content
            /\ \A c \in last.content : resp.size = {ByteLen(c)} /\ resp'.size = {ByteLen(c)}]_vars

\* The file the last call was asked to read, and what the claims about
\* reading take for granted: the path passes the sandbox and the allowed
\* roots, the file exists and its size can be taken.
ReadTarget == Resolve(fs, last.path)

ReadsAFile ==
    /\ last.op = "read" /\ last.path # <<>>
    /\ IsUnder(ReadTarget, WS)
    /\ \E root \in get_allowed_repo_roots(fs, allowedEnv) : IsUnder(ReadTarget, root)
    /\ IsFile(fs, ReadTarget)
    /\ ~last.fault.stat

ReadSize == ByteLen(fs[ReadTarget].content)

BeginsWithPng == StartsWith(Content(fs[ReadTarget].content).head, PngSignature)

\* C18: read_local_file returns ok:false with the binary-file error, and no
\* content, for every file whose first bytes are the PNG signature, whatever
\* its name and the rest of its content, once the path passed the sandbox,
\* existence and size checks.
C18_PngRejected ==
    (ReadsAFile /\ BeginsWithPng /\ \A m \in last.max_size : ReadSize <= m)
        => /\ ~resp.ok /\ ~resp.raised
           /\ resp.error.kind = "Binary file detected"
           /\ resp.content = {}

\* C18's case: the PNG signature followed by plain text, in a file named
\* img.txt, is refused as binary.
C18_Witness ==
    /\ ReadsAFile /\ last.path = <<"repo", "img.txt">> /\ last.fault = NoFault
    /\ last.max_size = {MAX_READ_FILE_SIZE}
    /\ fs[ReadTarget].content = PngThenText
    /\ ~resp.ok /\ resp.error.kind = "Binary file detected" /\ resp.content = {}

\* C19: read_local_file refuses a file larger than max_size before it reads
\* any of its content, with an error that states the actual byte count and
\* the limit; a file of exactly max_size bytes is not refused for its size.
C19_SizeBeforeContent ==
    ReadsAFile =>
        \A m \in last.max_size :
            /\ ReadSize > m =>
                  /\ ~resp.ok /\ ~resp.raised
                  /\ resp.error.kind = "File size exceeds maximum"
                  /\ resp.error.numbers = {ReadSize, m}
                  /\ last.opened = {} /\ resp.content = {}
            /\ ReadSize = m => resp.error.kind # "File size exceeds maximum"

\* C19's case: an image of one byte more than the default limit is refused
\* for its size, unopened.
C19_Witness ==
    /\ ReadsAFile /\ last.path = <<"repo", "huge.png">>
    /\ last.max_size = {MAX_READ_FILE_SIZE}
    /\ ReadSize = MAX_READ_FILE_SIZE + 1
    /\ resp.error.numbers = {MAX_READ_FILE_SIZE + 1, MAX_READ_FILE_SIZE}
    /\ last.opened = {}

\* C20: write_local_file with content whose encoded size is over the write
\* cap returns ok:false and leaves the file system as it was: no parent
\* directory, no backup, no file created or modified.
C20_OverCapUntouched ==
    [][(last'.op = "write" /\ steps' = steps + 1
        /\ \E c \in last'.content : ~EncodeFails(c) /\ ByteLen(c) > MAX_WRITE_FILE_SIZE)
         => /\ ~resp'.ok /\ ~resp'.raised
            /\ resp'.error.kind = "Content size exceeds maximum"
            /\ fs' = fs /\ last'.backups = {} /\ last'.io = {}]_vars

\* C20's case: a text over the cap by its bytes, though not by its
\* characters, for a path whose parent is missing, with create_dirs.
C20_Witness ==
    /\ last.op = "write" /\ last.content = {WideText} /\ last.path = <<"repo", "d", "n">>
    /\ ~resp.ok /\ resp.error.kind = "Content size exceeds maximum"
    /\ ~Exists(fs, <<"ws", "repo", "d">>)

\* ---------------------------------------------------------- backend claims

\* The call after a successful patch is the same patch request again,
\* neither a dry run.
SamePatchAgain ==
    /\ last.op = "patch" /\ resp.ok /\ ~last.dry_run /\ last.changed # {}
    /\ last'.op = "patch" /\ steps' = steps + 1
    /\ last'.patch = last.patch /\ last'.path = last.path /\ last'.strip = last.strip
    /\ ~last'.dry_run

\* C13, as stated: when the same patch is applied twice in succession
\* (no dry run) to content that was unmodified, the first call succeeds, the
\* second fails with a non-empty conflicts list, and the target file's
\* content after the second call is its content after the first.
C13_Original ==
    [][SamePatchAgain
         => /\ ~resp'.ok /\ resp'.conflicts
            /\ \A x \in last.changed :
                   /\ Exists(fs', x.loc) <=> Exists(fs, x.loc)
                   /\ Exists(fs, x.loc) => fs'[x.loc] = fs[x.loc]]_vars

\* C14: within one apply_patch_locally request the backend process is
\* started at most once; a timeout, a missing executable and a non-zero exit
\* each end the request with ok:false and an error, without a second attempt.
C14_NoRetry ==
    last.op = "patch" =>
        /\ last.backend <= 1
        /\ last.outcome \in {"timeout", "missing", "exit 1"}
              => /\ ~resp.ok /\ ~resp.raised /\ resp.error.kind # ""
                 /\ last.backend = 1
        /\ last.outcome = "exit 1" => resp.conflicts

\* C14's case: the backend is killed at the timeout after it patched the
\* first of two files; the request ends failed after that one run.
C14_Witness ==
    /\ last.op = "patch" /\ last.patch = PatchTwo /\ last.fault.backend = "timeout"
    /\ last.outcome = "timeout" /\ last.backend = 1 /\ ~resp.ok
    /\ resp.error.kind = "timeout"
    /\ \E x \in last.changed : x.loc = <<"ws", "repo", "f">>

\* A backup-enabled call whose backup copy fails and that meets no other
\* fault: a write over a file, or a patch (no dry run) of files that exist.
CopyFailsOnly == last.fault = [NoFault EXCEPT !.copy = TRUE]

\* C15: a failed backup copy never blocks the operation it precedes:
\* write_local_file still writes and apply_patch_locally still runs the
\* backend, and the response names no backup.
C15_CopyFailureDoesNotBlock ==
    /\ (BackupWriteOver /\ CopyFailsOnly)
          => /\ resp.ok /\ resp.backup_path = {} /\ last.backups = {}
             /\ \A c \in last.content : fs[last.target] = File(c)
    /\ (last.op = "patch" /\ last.create_backup /\ ~last.dry_run /\ CopyFailsOnly
        /\ last.stage \in {"backup", "backend"})
          => /\ last.stage = "backend" /\ last.backend = 1
             /\ resp.backup_path = {} /\ last.backups = {}
             /\ ~resp.raised

\* C15's case: a patch of an existing file goes through after the copy of
\* its backup failed, and the response names no backup.
C15_Witness ==
    /\ last.op = "patch" /\ last.patch = PatchOk /\ CopyFailsOnly
    /\ resp.ok /\ resp.backup_path = {} /\ last.changed # {}
    /\ fs[<<"ws", "repo", "f">>] = File("P")

\* C16: a request with dry_run creates no backup and changes no file: the
\* backend runs in its check-only mode only, and the response carries
\* neither a backup_path nor a diff_preview.
C16_DryRunChangesNothing ==
    [][(last'.op = "patch" /\ last'.dry_run /\ steps' = steps + 1)
         => /\ fs' = fs
            /\ last'.backups = {} /\ last'.changed = {}
            /\ last'.mode \in {"none", "check"}
            /\ resp'.backup_path = {} /\ ~resp'.diff_preview]_vars

\* C16's case: a dry run of a patch that applies, in a git repository with
\* backups asked for: ok, checked only, the file as it was.
C16_Witness ==
    /\ last.op = "patch" /\ last.dry_run /\ last.create_backup /\ last.patch = PatchOk
    /\ last.is_git = {TRUE} /\ last.mode = "check" /\ resp.ok
    /\ fs[<<"ws", "proj", "f">>] = File("0")
    /\ ~Exists(fs, <<"ws", "proj", "f.bak">>)

\* The target directory or one of its ancestors, the root directory
\* included, holds a ".git".
MarkerAbove(f, target) ==
    \E q \in Prefixes(target) \cup {<<>>} : Exists(f, Append(q, ".git"))

\* C17, as stated: git apply is used if and only if the target directory or
\* one of its ancestors holds a ".git"; otherwise the patch tool is used.
\* And a valid one-hunk patch applied with strip 1 and no dry run in a tree
\* without marker has the target file in files_modified and a backup_path.
C17_Original ==
    (last.op = "patch" /\ last.stage = "backend") =>
        /\ last.is_git = {MarkerAbove(fs, last.target)}
        /\ (~MarkerAbove(fs, last.target) /\ resp.ok /\ ~last.dry_run /\ last.create_backup
            /\ last.patch = PatchOk)
              => resp.files_modified = {<<"f">>} /\ resp.backup_path # {}

\* The directory a listing was asked for, the depth of a location below it
\* (its own entries are one level below), and the depth the request allows:
\* max_depth, 20 when it is absent, and never more than 20.
ListedDir == Resolve(fs, last.path)
Listed == last.op = "list" /\ resp.ok
ListedRecursively == Listed /\ last.recursive
Level(p) == Len(p) - Len(ListedDir)
RequestedDepth == CHOOSE m \in last.max_depth : TRUE
DepthBound == Min(IF RequestedDepth = 0 THEN 20 ELSE RequestedDepth, 20)
EntryPaths == {resp.entries[i].path : i \in DOMAIN resp.entries}
Below(p) == IsUnder(p, ListedDir) /\ p # ListedDir

\* C21, as stated: a recursive listing with max_depth m > 0 returns no entry
\* more than min(m, 20) levels below the listed directory.
C21_Original ==
    (ListedRecursively /\ RequestedDepth > 0)
        => \A p \in EntryPaths : Level(p) <= Min(RequestedDepth, 20)

\* The number of entries of the tree below a directory.
RECURSIVE Sum(_, _)
Sum(f, S) ==
    IF S = {} THEN 0
    ELSE LET q == CHOOSE x \in S : TRUE IN CountOf(f, q) + Sum(f, S \ {q})
TreeSize == Sum(fs, {q \in DOMAIN fs : Below(q)})

\* C22, as stated: a listing, single-level or recursive, never returns more
\* than 10000 entries, and when the tree below the listed directory holds
\* fewer entries than that, truncated is false.
C22_Original ==
    Listed
        => /\ \A c \in resp.count : c <= 10000
           /\ TreeSize < 10000 => ~resp.truncated

\* C23, as stated: in a recursive listing with a pattern, every directory
\* within the depth bound is listed whether or not its name matches.
C23_Original ==
    (ListedRecursively /\ last.pattern # "")
        => \A q \in DOMAIN fs :
               (IsDir(fs, q) /\ Below(q) /\ Level(q) <= DepthBound) => q \in EntryPaths

\* A file below the listed directory whose name matches the pattern, within
\* the depth bound.
MatchingFile(q) ==
    /\ IsFile(fs, q) /\ Below(q) /\ Level(q) <= DepthBound
    /\ FnMatch(Last(q), last.pattern)

\* Every directory between the listed directory and q, the listed one
\* included, can be read.
ReadableAbove(q) ==
    \A d \in Prefixes(q) : (IsUnder(d, ListedDir) /\ d # q) => fs[d] # Unreadable

\* C24, as stated: in a recursive listing with a pattern that the cap did not
\* cut short, every file whose name matches and that lies within the depth
\* bound is returned, whatever the names of the directories above it.
C24_Original ==
    (ListedRecursively /\ last.pattern # "" /\ ~resp.truncated)
        => \A q \in DOMAIN fs : MatchingFile(q) => q \in EntryPaths

\* C24, amended: ... every such file below directories that can be read is
\* returned, whatever the names of the directories above it.
C24_MatchesBelowReadable ==
    (ListedRecursively /\ last.pattern # "" /\ ~resp.truncated)
        => \A q \in DOMAIN fs :
               (MatchingFile(q) /\ ReadableAbove(q)) => q \in EntryPaths

\* C24's case: "*.py" with max_depth 2 returns d1/b.py, below a directory
\* whose name does not match and that is not listed itself.
C24_Witness ==
    /\ ListedRecursively /\ last.path = <<"tree">> /\ last.pattern = "*.py"
    /\ last.max_depth = {2}
    /\ Tree \o <<"d1", "b.py">> \in EntryPaths
    /\ Tree \o <<"d1">> \notin EntryPaths

\* C29, as stated: every entry a listing returns has its real location
\* inside the workspace root.
C29_Original ==
    Listed => \A i \in DOMAIN resp.entries : IsUnder(resp.entries[i].loc, WS)

\* The preview of the last call could not be generated: git diff failed, ran
\* into its timeout, printed nothing, or there is no repository.
PreviewFails == last.fault.preview # "none" \/ ~MarkerAbove(fs, last.target)

\* C25: diff_preview is a string only in a response with success true to a
\* request without dry_run; and when the preview cannot be generated the
\* response has diff_preview null and its success is what the backend's
\* exit made it.
C25_PreviewOnlyAfterApply ==
    last.op = "patch" =>
        /\ resp.diff_preview => (resp.ok /\ ~last.dry_run)
        /\ (last.stage = "backend" /\ PreviewFails)
              => /\ ~resp.diff_preview /\ ~resp.raised
                 /\ resp.ok <=> last.outcome = "exit 0"

\* C25's case: a patch is applied in a git repository and git diff runs
\* into its timeout: success, files modified, no preview.
C25_Witness ==
    /\ last.op = "patch" /\ ~last.dry_run /\ last.fault.preview = "timeout"
    /\ MarkerAbove(fs, last.target)
    /\ resp.ok /\ resp.files_modified # {} /\ ~resp.diff_preview
    /\ fs[<<"ws", "proj", "f">>] = File("P")

\* C27, as stated: after a successful apply (no dry run) of a patch, which
\* has at least one hunk, hunks_applied is at least 1; after a failed apply
\* in which the backend rejected hunks, hunks_failed is at least 1.
C27_Original ==
    (last.op = "patch" /\ last.stage = "backend" /\ ~last.dry_run)
        => /\ resp.ok => resp.hunks_applied >= 1
           /\ last.outcome = "exit 1" => resp.hunks_failed >= 1

\* C28, as stated: every apply_patch_locally response with success false
\* (the requests that fail before the patch is written to its temporary file
\* have no success field when that file cannot be written) has a string in
\* error_message.
C28_Original ==
    (last.op = "patch" /\ ~resp.ok /\ ~resp.raised /\ last.fault.tmp = "none")
        => resp.error_message

\* C30, as stated: whenever a write_local_file call made a backup copy, the
\* response of that call has the backup's path in backup_path, also when the
\* write after the backup failed and the response is ok:false.
C30_Original ==
    (last.op = "write" /\ last.backups # {}) => resp.backup_path = last.backups

\* Every concurrent caller has made a call and none is inside one.
AllReturned == \A w \in Writers : writers[w].pc = "idle" /\ writers[w].calls >= 1

\* C26, as stated: when the concurrent write_local_file calls on one file
\* have all returned, each returned ok:true and the file holds the content
\* given by the call whose write step ran last.
C26_Original ==
    AllReturned
        => /\ \A w \in Writers : \A r \in writers[w].response : r.ok
           /\ fs[<<"ws", "repo", "f">>].content = writers[lastWrite].content

====
